---- MODULE Spec2Model ----
(***************************************************************************)
(* Client side of the chat application (frontend/src/App.js): the          *)
(* SocketProvider, the App session controller and the ChatRoom component   *)
(* with its socket handlers and its typing-stop timer.                     *)
(*                                                                         *)
(* Text is a sequence of one-character strings, so that String.trim is a   *)
(* computation.  JavaScript null is "null" for a room and 0 for a timer    *)
(* id (both are falsy in the code's tests).                                *)
(***************************************************************************)
EXTENDS Integers, Sequences, FiniteSets, TLC

\* ------------------------------------------------------------------ bounds
MaxTimers   == 2    \* timers that may be pending at once in the browser
MaxBurst    == 2    \* keystrokes counted in one burst
MaxInFlight == 1    \* inbound events received and not yet dispatched
MaxMsgs     == 3    \* length of the rendered message list

\* --------------------------------------------------------------- constants
TypingTimeout == 1000              \* setTimeout(..., 1000)
NoTimer       == 0                 \* useRef(null): no timer id stored
TickMs        == TypingTimeout \div 2

Null    == "null"
RoomIds == {"R1", "R2"}

\* ---------------------------------------------------------------- text
IsSpace(c) == c = " "

RECURSIVE TrimStart(_)
TrimStart(s) == IF s # <<>> /\ IsSpace(Head(s)) THEN TrimStart(Tail(s)) ELSE s

RECURSIVE TrimEnd(_)
TrimEnd(s) ==
  IF s # <<>> /\ IsSpace(s[Len(s)]) THEN TrimEnd(SubSeq(s, 1, Len(s) - 1)) ELSE s

\* a variant that tests and sends the value as typed
Untrimmed(s) == s

\* String.prototype.trim
Trim(s) == TrimEnd(TrimStart(s))

\* a string is truthy when it is not empty
Truthy(s) == s # <<>>

\* what the user can type into the username field and the message field
NameInputs == { <<>>, <<" ">>, <<"a", "l">>, <<" ", "a", "l">> }
TextInputs == { <<>>, <<" ">>, <<"h", "i">>, <<"h", "i", " ">> }

\* what the user can type into the room name field
RoomNameInputs == { <<>>, <<" ">>, <<"g">> }

\* peers of the room
UserA == <<"a">>
UserB == <<"b">>
Peers == {UserA, UserB}

\* messages the server delivers
Msg1 == [username |-> UserA, message |-> <<"h", "i">>, timestamp |-> 1]
Msg2 == [username |-> UserB, message |-> <<"y", "o">>, timestamp |-> 2]
Msgs == {Msg1, Msg2}

\* ------------------------------------------------------------ wire events
JoinRoomEv(u, r)    == [type |-> "join_room", username |-> u, room_id |-> r]
LeaveRoomEv(r)      == [type |-> "leave_room", room_id |-> r]
SendMessageEv(r, m) == [type |-> "send_message", room_id |-> r, message |-> m]
TypingEv(r, b)      == [type |-> "typing", room_id |-> r, is_typing |-> b]

\* inbound payloads; a field may be absent
RoomJoinedData ==
  { [messages |-> <<>>, users |-> <<UserA, UserB>>],
    [messages |-> <<Msg2, Msg1>>, users |-> <<UserA>>],
    [messages |-> <<Msg1>>],
    [users |-> <<UserB>>] }
UsersData  == { [users |-> <<UserA, UserB>>], [users |-> <<UserA>>], [other |-> TRUE] }
TypingData == { [username |-> u, is_typing |-> b] : u \in Peers, b \in BOOLEAN }

InboundTypes == {"room_joined", "new_message", "user_joined", "user_left", "user_typing"}
NoEvent == [type |-> "none"]

VARIABLES
  \* App
  username, currentRoom, appState,
  \* RoomSelection: a create request awaits its response
  createPending,
  \* SocketProvider
  socket, connected,
  \* ChatRoom (meaningful while the component is mounted)
  messages, newMessage, onlineUsers, typingUsers, typingTimeoutRef,
  \* the socket's room-scoped listeners, the browser's timer table,
  \* inbound events awaiting dispatch, events emitted by the last step
  listening, timers, inbound, emitted,
  \* history variables used by the properties only: the last event
  \* dispatched and the Typing Set before it, the time since the last
  \* keystroke, the keystrokes and typing(true) events of the current burst,
  \* whether a send has happened since the last keystroke, and whether a
  \* reconnect happened while in a room
  handled, typingBefore, sinceKey, keysInBurst, trueInBurst, quiet, rejoin,
  \* the room of the last join_room emitted when no leave_room followed it,
  \* and whether a submit has been refused since the last input accepted
  joinedRoom, rejected

appVars    == <<username, currentRoom, appState>>
sockVars   == <<socket, connected>>
roomVars   == <<messages, newMessage, onlineUsers, typingUsers, typingTimeoutRef>>
histKept   == <<handled, typingBefore, sinceKey, keysInBurst, trueInBurst, quiet, rejoin, joinedRoom>>
histVars   == <<histKept, rejected>>
vars       == <<appVars, createPending, sockVars, roomVars, listening, timers, inbound, emitted, histVars>>

\* the render gate of App: appState === 'chat' && currentRoom
Mounted == appState = "chat" /\ currentRoom # Null

\* ---------------------------------------------------------------- helpers
Remove(s, u) == SelectSeq(s, LAMBDA x : x # u)

IsTyping(e) == e.type = "typing"
TypingTrueCount(es) == Cardinality({i \in DOMAIN es : es[i].type = "typing" /\ es[i].is_typing})

\* `data.field || []`
MessagesOrEmpty(data) == IF "messages" \in DOMAIN data THEN data.messages ELSE <<>>
UsersOrEmpty(data)    == IF "users" \in DOMAIN data THEN data.users ELSE <<>>

Min(a, b) == IF a < b THEN a ELSE b
Max(a, b) == IF a > b THEN a ELSE b

\* ------------------------------------------------------------ timer table
\* clearTimeout(id): cancels a pending timer, no effect for any other id
ClearTimeout(tm, id) == [i \in DOMAIN tm \ {id} |-> tm[i]]

\* setTimeout returns an id that names no pending timer
FreshId(tm) == CHOOSE i \in 1..MaxTimers : i \notin DOMAIN tm /\ \A j \in 1..(i - 1) : j \in DOMAIN tm

\* a variant that arms nothing
SetTimeoutNever(tm, id, room) == tm

SetTimeout(tm, id, room) ==
  [i \in DOMAIN tm \cup {id} |->
     IF i = id THEN [room |-> room, remaining |-> TypingTimeout, orphan |-> FALSE] ELSE tm[i]]

\* the timers of the mounted ChatRoom (orphan: its ChatRoom has unmounted)
OwnTimers == {i \in DOMAIN timers : ~timers[i].orphan}

\* ------------------------------------------------------------------- Init
NoRejoin == [st |-> "none", room |-> Null]

Start(up) ==
  /\ username = <<>> /\ currentRoom = Null /\ appState = "username"
  /\ createPending = FALSE
  /\ joinedRoom = Null /\ rejected = FALSE
  /\ socket = "socket" /\ connected = up
  /\ messages = <<>> /\ newMessage = <<>> /\ onlineUsers = <<>> /\ typingUsers = <<>>
  /\ typingTimeoutRef = NoTimer
  /\ listening = FALSE /\ timers = <<>> /\ inbound = <<>> /\ emitted = <<>>
  /\ handled = NoEvent /\ typingBefore = <<>> /\ sinceKey = TypingTimeout
  /\ keysInBurst = 0 /\ trueInBurst = 0 /\ quiet = FALSE /\ rejoin = NoRejoin

\* after the first render and its effects: the socket exists, no handshake yet
Init == Start(FALSE)

\* the same once the handshake has completed
InitUp == Start(TRUE)

resetHist ==
  /\ handled' = NoEvent /\ typingBefore' = <<>> /\ sinceKey' = TypingTimeout
  /\ keysInBurst' = 0 /\ trueInBurst' = 0 /\ quiet' = FALSE /\ rejected' = FALSE

\* --------------------------------------------------------- SocketProvider
\* newSocket.on('connect')
Connect ==
  /\ ~connected
  /\ connected' = TRUE
  /\ emitted' = <<>>
  /\ rejoin' = IF rejoin.st = "dropped" THEN [rejoin EXCEPT !.st = "owed"] ELSE rejoin
  /\ UNCHANGED <<appVars, socket, roomVars, listening, timers, inbound>>
  /\ UNCHANGED <<handled, typingBefore, sinceKey, keysInBurst, trueInBurst, quiet>>
  /\ UNCHANGED <<createPending, joinedRoom, rejected>>

\* newSocket.on('disconnect')
Disconnect ==
  /\ connected
  /\ connected' = FALSE
  /\ emitted' = <<>>
  /\ rejoin' = IF Mounted /\ rejoin.st = "none"
               THEN [st |-> "dropped", room |-> currentRoom] ELSE rejoin
  /\ UNCHANGED <<appVars, socket, roomVars, listening, timers, inbound>>
  /\ UNCHANGED <<handled, typingBefore, sinceKey, keysInBurst, trueInBurst, quiet>>
  /\ UNCHANGED <<createPending, joinedRoom, rejected>>

\* ---------------------------------------------------------- UsernameModal
\* UsernameModal.handleSubmit, then App.handleSetUsername
UsernameSubmit(name) ==
  /\ appState = "username"
  /\ IF Truthy(Trim(name))
     THEN username' = Trim(name) /\ appState' = "rooms"
     ELSE UNCHANGED <<username, appState>>
  /\ emitted' = <<>>
  /\ rejected' = ~Truthy(Trim(name))
  /\ UNCHANGED <<currentRoom, createPending, sockVars, roomVars, listening, timers, inbound, histKept>>

\* -------------------------------------------------------------- ChatRoom
\* a variant in which the message list survives from the previous room
CarriedMessages == messages

\* useState initial values of a ChatRoom that mounts
InitialMessages    == <<>>
InitialOnlineUsers == <<>>
InitialTypingUsers == <<>>

\* the room joined on the wire once the events `es` have been emitted
AfterEmitted(j, es) ==
  IF \E i \in DOMAIN es : es[i].type = "join_room"
  THEN (CHOOSE e \in {es[i] : i \in DOMAIN es} : e.type = "join_room").room_id
  ELSE IF \E i \in DOMAIN es : es[i].type = "leave_room" THEN Null ELSE j

\* App.handleJoinRoom / App.handleCreateRoom, the render that follows and,
\* when the ChatRoom mounts, its effect: join_room and the five listeners
SelectRoom(room) ==
  /\ currentRoom' = room
  /\ appState' = "chat"
  /\ IF room # Null
     THEN /\ messages' = InitialMessages
          /\ newMessage' = <<>>
          /\ onlineUsers' = InitialOnlineUsers
          /\ typingUsers' = InitialTypingUsers
          /\ typingTimeoutRef' = NoTimer
          /\ IF socket # Null
             THEN emitted' = <<JoinRoomEv(username, room)>> /\ listening' = TRUE
             ELSE emitted' = <<>> /\ UNCHANGED listening
     ELSE emitted' = <<>> /\ UNCHANGED <<roomVars, listening>>
  /\ resetHist
  /\ rejoin' = NoRejoin
  /\ joinedRoom' = AfterEmitted(joinedRoom, emitted')
  /\ UNCHANGED <<username, sockVars, timers, inbound>>

\* a room of the list is clicked
HandleJoinRoom(room) ==
  /\ appState = "rooms"
  /\ SelectRoom(room)
  /\ UNCHANGED createPending

\* RoomSelection.handleCreateRoom up to the await: the request is issued
\* when the name is not blank
CreateRoomSubmit(name) ==
  /\ appState = "rooms"
  /\ createPending' = (createPending \/ Truthy(Trim(name)))
  /\ emitted' = <<>>
  /\ rejected' = ~Truthy(Trim(name))
  /\ UNCHANGED <<appVars, sockVars, roomVars, listening, timers, inbound, histKept>>

\* the request fails: the catch branch logs and nothing else happens
CreateRoomError ==
  /\ createPending
  /\ createPending' = FALSE
  /\ emitted' = <<>>
  /\ UNCHANGED <<appVars, sockVars, roomVars, listening, timers, inbound, histVars>>

\* a mounted ChatRoom is rendered with another `room`: the effect's cleanup
\* runs, then the effect again; the component and its state stay
RoomChanged(room) ==
  /\ emitted' = IF socket # Null THEN <<JoinRoomEv(username, room)>> ELSE <<>>
  /\ rejoin' = NoRejoin
  /\ joinedRoom' = AfterEmitted(joinedRoom, emitted')
  /\ UNCHANGED <<roomVars, listening, timers>>
  /\ UNCHANGED <<handled, typingBefore, sinceKey, keysInBurst, trueInBurst, quiet, rejected>>

\* a variant whose effect returns no cleanup: the listeners stay registered
UnmountKeepsListeners ==
  /\ UNCHANGED listening
  /\ timers' = [i \in DOMAIN timers |-> [timers[i] EXCEPT !.orphan = TRUE]]
  /\ resetHist
  /\ rejoin' = NoRejoin
  /\ UNCHANGED roomVars

\* the render gate closes on a mounted ChatRoom: the effect's cleanup
\* removes the listeners
Unmount ==
  /\ listening' = FALSE
  /\ timers' = [i \in DOMAIN timers |-> [timers[i] EXCEPT !.orphan = TRUE]]
  /\ resetHist
  /\ rejoin' = NoRejoin
  /\ UNCHANGED roomVars

\* RoomSelection.handleCreateRoom after the await, whatever is rendered by
\* then: the response carries the created `room` (possibly nothing, never
\* the room that is open), then App.handleCreateRoom and the render that
\* follows
HandleCreateRoom(room) ==
  /\ createPending
  /\ room = Null \/ room # currentRoom
  /\ createPending' = FALSE
  /\ IF Mounted
     THEN /\ currentRoom' = room
          /\ appState' = "chat"
          /\ IF room # Null
             THEN RoomChanged(room)
             ELSE Unmount /\ emitted' = <<>> /\ UNCHANGED joinedRoom
          /\ UNCHANGED <<username, sockVars, inbound>>
     ELSE SelectRoom(room)

\* ChatRoom.handleLeaveRoom, App.handleLeaveRoom, and the unmount that
\* follows: the effect's cleanup removes the listeners
HandleLeaveRoom ==
  /\ Mounted
  /\ emitted' = IF socket # Null THEN <<LeaveRoomEv(currentRoom)>> ELSE <<>>
  /\ currentRoom' = Null
  /\ appState' = "rooms"
  /\ Unmount
  /\ joinedRoom' = AfterEmitted(joinedRoom, emitted')
  /\ UNCHANGED <<username, createPending, sockVars, inbound>>

\* ------------------------------------------------- ChatRoom: outbound typing
\* a variant that announces typing only when no idle timer is pending
KeystrokeEmitsOnce(room) == IF OwnTimers = {} THEN <<TypingEv(room, TRUE)>> ELSE <<>>

\* handleTyping: what a keystroke emits
KeystrokeEmits(room) == <<TypingEv(room, TRUE)>>

\* a variant that arms a new timer without clearing the previous one
KeepPrevious(tm, ref) == tm

\* handleTyping: `if (typingTimeoutRef.current) clearTimeout(...)`
ClearPrevious(tm, ref) == IF ref # NoTimer THEN ClearTimeout(tm, ref) ELSE tm

\* ChatRoom.handleTyping, the input's onChange with the new value
HandleTyping(value) ==
  /\ Mounted
  /\ value # newMessage
  /\ newMessage' = value
  /\ IF socket # Null
     THEN LET cleared == ClearPrevious(timers, typingTimeoutRef)
              id      == FreshId(cleared)
          IN  /\ Cardinality(DOMAIN cleared) < MaxTimers
              /\ emitted' = KeystrokeEmits(currentRoom)
              /\ timers' = SetTimeout(cleared, id, currentRoom)
              /\ typingTimeoutRef' = id
     ELSE emitted' = <<>> /\ UNCHANGED <<timers, typingTimeoutRef>>
  /\ LET continues == OwnTimers # {}
     IN  /\ continues => keysInBurst < MaxBurst
         /\ keysInBurst' = IF continues THEN keysInBurst + 1 ELSE 1
         /\ trueInBurst' = (IF continues THEN trueInBurst ELSE 0) + TypingTrueCount(emitted')
  /\ sinceKey' = 0
  /\ quiet' = FALSE
  /\ UNCHANGED <<appVars, sockVars, messages, onlineUsers, typingUsers, listening, inbound>>
  /\ rejected' = FALSE
  /\ UNCHANGED <<handled, typingBefore, rejoin, createPending, joinedRoom>>

\* ChatRoom.handleSendMessage, the form's onSubmit
HandleSendMessage ==
  /\ Mounted
  /\ IF Truthy(Trim(newMessage)) /\ socket # Null
     THEN /\ emitted' = << SendMessageEv(currentRoom, Trim(newMessage)),
                           TypingEv(currentRoom, FALSE) >>
          /\ newMessage' = <<>>
          /\ quiet' = TRUE
     ELSE /\ emitted' = <<>>
          /\ UNCHANGED <<newMessage, quiet>>
  /\ UNCHANGED <<appVars, sockVars, messages, onlineUsers, typingUsers, typingTimeoutRef>>
  /\ rejected' = ~Truthy(Trim(newMessage))
  /\ UNCHANGED <<timers, listening, inbound, handled, typingBefore, sinceKey, keysInBurst, trueInBurst, rejoin>>
  /\ UNCHANGED <<createPending, joinedRoom>>

\* the callback given to setTimeout in handleTyping; its closure holds the
\* socket and the room of the ChatRoom that armed it
TimerFire(id) ==
  /\ id \in DOMAIN timers
  /\ timers[id].remaining = 0
  /\ emitted' = <<TypingEv(timers[id].room, FALSE)>>
  /\ timers' = ClearTimeout(timers, id)
  /\ UNCHANGED <<appVars, createPending, sockVars, roomVars, listening, inbound, histVars>>

\* TickMs of time pass; a timer that is due runs before more time passes
Tick ==
  /\ \A i \in DOMAIN timers : timers[i].remaining > 0
  /\ DOMAIN timers # {} \/ (Mounted /\ sinceKey < TypingTimeout)
  /\ timers' = [i \in DOMAIN timers |->
                  [timers[i] EXCEPT !.remaining = Max(0, timers[i].remaining - TickMs)]]
  /\ sinceKey' = IF Mounted THEN Min(TypingTimeout, sinceKey + TickMs) ELSE sinceKey
  /\ emitted' = <<>>
  /\ UNCHANGED <<appVars, sockVars, roomVars, listening, inbound>>
  /\ UNCHANGED <<handled, typingBefore, keysInBurst, trueInBurst, quiet, rejoin, createPending, joinedRoom, rejected>>

\* ------------------------------------------------------- inbound events
\* the server sends an event to this client while it is in a room; `room`
\* records the room the event belongs to (the payloads carry no room id).
\* Nothing reads a payload before its listener runs: it is drawn there.
ServerSend(t) ==
  /\ Mounted
  /\ connected
  /\ Len(inbound) < MaxInFlight
  /\ inbound' = Append(inbound, [type |-> t, room |-> currentRoom])
  /\ emitted' = <<>>
  /\ UNCHANGED <<appVars, createPending, sockVars, roomVars, listening, timers, histVars>>

Has(s, x) == \E i \in DOMAIN s : s[i] = x

\* variants: new_message skipping a message already listed, a membership
\* event merged into the snapshot, typing(true) inserting only when absent
MessagesDeduplicated(prev, message) == IF Has(prev, message) THEN prev ELSE Append(prev, message)
UsersMerged(prev, data) == prev \o SelectSeq(UsersOrEmpty(data), LAMBDA u : ~Has(prev, u))
TypingInsertIfAbsent(prev, data) ==
  IF data.is_typing
  THEN (IF Has(prev, data.username) THEN prev ELSE Append(prev, data.username))
  ELSE Remove(prev, data.username)

\* variants of the user_typing update: a stop that splices at indexOf (which
\* is -1, the last entry, for a username that is not listed), and a start
\* that appends without filtering
TypingStopSplice(prev, data) ==
  IF data.is_typing
  THEN Append(Remove(prev, data.username), data.username)
  ELSE IF Has(prev, data.username) THEN Remove(prev, data.username)
       ELSE SubSeq(prev, 1, Len(prev) - 1)
TypingAppendAlways(prev, data) ==
  IF data.is_typing
  THEN Append(prev, data.username)
  ELSE Remove(prev, data.username)

\* the state updates of the five listeners
MessagesOnRoomJoined(prev, data) == MessagesOrEmpty(data)
MessagesOnNewMessage(prev, message) == Append(prev, message)
UsersOnEvent(prev, data) == UsersOrEmpty(data)
TypingOnEvent(prev, data) ==
  IF data.is_typing
  THEN Append(Remove(prev, data.username), data.username)
  ELSE Remove(prev, data.username)

\* the socket dispatches the oldest pending event, with payload `data`, to
\* its listener
Dispatch(t, data) ==
  /\ inbound # <<>>
  /\ Head(inbound).type = t
  /\ listening
  /\ inbound' = Tail(inbound)
  /\ handled' = [type |-> t, data |-> data, room |-> Head(inbound).room]
  /\ typingBefore' = typingUsers
  /\ emitted' = <<>>
  /\ UNCHANGED <<appVars, sockVars, newMessage, typingTimeoutRef, listening, timers>>
  /\ UNCHANGED <<sinceKey, keysInBurst, trueInBurst, quiet, rejoin, createPending, joinedRoom, rejected>>

\* socket.on('room_joined')
OnRoomJoined(data) ==
  /\ Dispatch("room_joined", data)
  /\ messages' = MessagesOnRoomJoined(messages, data)
  /\ onlineUsers' = UsersOnEvent(onlineUsers, data)
  /\ UNCHANGED typingUsers

\* socket.on('new_message')
OnNewMessage(message) ==
  /\ Dispatch("new_message", message)
  /\ Len(messages) < MaxMsgs
  /\ messages' = MessagesOnNewMessage(messages, message)
  /\ UNCHANGED <<onlineUsers, typingUsers>>

\* socket.on('user_joined')
OnUserJoined(data) ==
  /\ Dispatch("user_joined", data)
  /\ onlineUsers' = UsersOnEvent(onlineUsers, data)
  /\ UNCHANGED <<messages, typingUsers>>

\* socket.on('user_left')
OnUserLeft(data) ==
  /\ Dispatch("user_left", data)
  /\ onlineUsers' = UsersOnEvent(onlineUsers, data)
  /\ UNCHANGED <<messages, typingUsers>>

\* socket.on('user_typing')
OnUserTyping(data) ==
  /\ Dispatch("user_typing", data)
  /\ typingUsers' = TypingOnEvent(typingUsers, data)
  /\ UNCHANGED <<messages, onlineUsers>>

\* an event that arrives while no ChatRoom listens (after socket.off) is lost
Unheard ==
  /\ inbound # <<>>
  /\ ~listening
  /\ inbound' = Tail(inbound)
  /\ emitted' = <<>>
  /\ UNCHANGED <<appVars, createPending, sockVars, roomVars, listening, timers, histVars>>

\* ------------------------------------------------------------------ Next
Session ==
  \/ \E name \in NameInputs : UsernameSubmit(name)
  \/ \E room \in RoomIds : HandleJoinRoom(room)
  \/ \E name \in RoomNameInputs : CreateRoomSubmit(name)
  \/ CreateRoomError
  \/ \E room \in RoomIds \cup {Null} : HandleCreateRoom(room)
  \/ HandleLeaveRoom

Transport == Connect \/ Disconnect

Outbound ==
  \/ \E value \in TextInputs : HandleTyping(value)
  \/ HandleSendMessage
  \/ \E id \in 1..MaxTimers : TimerFire(id)
  \/ Tick

Inbound ==
  \/ \E t \in InboundTypes : ServerSend(t)
  \/ \E data \in RoomJoinedData : OnRoomJoined(data)
  \/ \E message \in Msgs : OnNewMessage(message)
  \/ \E data \in UsersData : OnUserJoined(data)
  \/ \E data \in UsersData : OnUserLeft(data)
  \/ \E data \in TypingData : OnUserTyping(data)
  \/ Unheard

Next == Session \/ Transport \/ Outbound \/ Inbound

Spec == Init /\ [][Next]_vars

\* Outbound (keystrokes, sends, timers) and Inbound (the five listeners) read
\* and write disjoint variables; each is explored with the session actions.

\* the session with the outbound side of the typing indicator
NextOut == Session \/ Transport \/ Outbound
SpecOut == Init /\ [][NextOut]_vars

\* the session with the inbound listeners, on a connection that stays up
NextIn == Session \/ Inbound
SpecIn == InitUp /\ [][NextIn]_vars

\* timers run when due and time passes
SpecLive ==
  /\ Init /\ [][NextOut]_vars
  /\ WF_vars(Tick)
  /\ \A id \in 1..MaxTimers : WF_vars(TimerFire(id))

\* ============================================================ properties
\* the step dispatches the oldest pending event, of one of the types `ts`,
\* to a listener of the mounted ChatRoom
Dispatched(ts) ==
  /\ inbound # <<>>
  /\ listening
  /\ Head(inbound).type \in ts
  /\ inbound' = Tail(inbound)

MembershipTypes == {"room_joined", "user_joined", "user_left"}

\* the last dispatched event was user_typing{username = u, is_typing = true}
TypingStartHandled(u) ==
  /\ handled.type = "user_typing"
  /\ handled.data.username = u
  /\ handled.data.is_typing

C2_IdleTimerReset ==
  /\ Cardinality(OwnTimers) <= 1
  /\ \A i \in OwnTimers :
       /\ Mounted
       /\ i = typingTimeoutRef
       /\ timers[i].remaining = TypingTimeout - sinceKey

C2_Witness ==
  /\ Mounted
  /\ keysInBurst >= 2
  /\ ~quiet
  /\ OwnTimers = {}
  /\ sinceKey = TypingTimeout
  /\ emitted = <<TypingEv(currentRoom, FALSE)>>

\* C3 as stated: a send emits typing(false) at once and cancels the pending
\* idle timer, so between the send and the next keystroke the only typing
\* event emitted is the one that accompanies the send.
C3_SendClearsTyping ==
  quiet =>
    \/ \A i \in DOMAIN emitted : ~IsTyping(emitted[i])
    \/ /\ Len(emitted) = 2
       /\ emitted[1].type = "send_message"
       /\ emitted[2] = TypingEv(currentRoom, FALSE)

\* C4 as stated: an inbound event that belongs to a room other than the
\* active one changes neither the Message Stream, nor the Membership
\* Snapshot, nor the Typing Set.
C4_StaleEventsDropped ==
  [][ (Mounted /\ Dispatched(InboundTypes) /\ Head(inbound).room # currentRoom)
        => UNCHANGED <<messages, onlineUsers, typingUsers>> ]_vars

\* C5 as stated: a timer that is pending when its room is left never fires.
C5_LeaveCancelsTimer ==
  [][ \A i \in DOMAIN timers : timers[i].orphan => i \in DOMAIN timers' ]_vars

\* C6 as stated: a reconnect that follows a disconnect in room r is
\* eventually followed by the emission of join_room for r (or the room is
\* left before that, which ends the obligation).
C6_RejoinAfterReconnect ==
  \A r \in RoomIds :
    (rejoin = [st |-> "owed", room |-> r])
      ~> (Has(emitted, JoinRoomEv(username, r)) \/ rejoin.st # "owed")

\* C7: room_joined, user_joined and user_left set the Membership Snapshot to
\* exactly the event's users (empty when absent) whatever it was before, and
\* no other step of a mounted ChatRoom changes it.
C7_MembershipReplaced ==
  [][ IF Dispatched(MembershipTypes)
      THEN onlineUsers' = (IF "users" \in DOMAIN handled'.data
                           THEN handled'.data.users ELSE <<>>)
      ELSE (Mounted /\ Mounted') => onlineUsers' = onlineUsers ]_vars

C7_Witness ==
  /\ Mounted
  /\ handled.type = "user_left"
  /\ handled.data = [users |-> <<UserA>>]
  /\ onlineUsers = <<UserA>>

\* C8: room_joined sets the Message Stream to its history in received order
\* (empty when absent), new_message appends its message at the tail, also
\* when the message is already listed, and no other step of a mounted
\* ChatRoom changes the stream.
C8_StreamOrdering ==
  [][ IF Dispatched({"room_joined"})
      THEN messages' = (IF "messages" \in DOMAIN handled'.data
                        THEN handled'.data.messages ELSE <<>>)
      ELSE IF Dispatched({"new_message"})
      THEN /\ Len(messages') = Len(messages) + 1
           /\ messages'[Len(messages')] = handled'.data
           /\ SubSeq(messages', 1, Len(messages)) = messages
      ELSE (Mounted /\ Mounted') => messages' = messages ]_vars

C8_Witness ==
  /\ Mounted
  /\ handled.type = "new_message"
  /\ handled.data = Msg1
  /\ messages = <<Msg2, Msg1, Msg1>>

\* C9: a ChatRoom that mounts starts with an empty Message Stream, Membership
\* Snapshot and Typing Set, whatever the previous room left behind, and a
\* room_joined with an empty (or absent) history leaves the stream empty.
C9_RoomSwitchClears ==
  [][ /\ (~Mounted /\ Mounted')
         => messages' = <<>> /\ onlineUsers' = <<>> /\ typingUsers' = <<>>
      /\ (Dispatched({"room_joined"}) /\ MessagesOrEmpty(handled'.data) = <<>>)
         => messages' = <<>> ]_vars

\* in R2 after R1, R1's room_joined still on its way
C9_Witness ==
  /\ Mounted /\ currentRoom = "R2"
  /\ handled = NoEvent
  /\ inbound # <<>>
  /\ Head(inbound).room = "R1"
  /\ Head(inbound).type = "room_joined"
  /\ messages = <<>> /\ onlineUsers = <<>> /\ typingUsers = <<>>

\* C10 as stated: user_typing{u, true} for a u already in the Typing Set
\* leaves the sequence unchanged.
C10_RepeatKeepsPosition ==
  \A u \in Peers :
    (Mounted /\ TypingStartHandled(u) /\ Has(typingBefore, u))
      => typingUsers = typingBefore

\* C10 amended: user_typing{u, true} for a u already in the Typing Set moves
\* u to the last position; no entry is added or lost and the other entries
\* keep their relative order.
C10_RepeatMovesToEnd ==
  \A u \in Peers :
    (Mounted /\ TypingStartHandled(u) /\ Has(typingBefore, u))
      => /\ Len(typingUsers) = Len(typingBefore)
         /\ typingUsers[Len(typingUsers)] = u
         /\ Remove(typingUsers, u) = Remove(typingBefore, u)

C10_Witness ==
  /\ Mounted
  /\ TypingStartHandled(UserA)
  /\ typingBefore = <<UserA, UserB>>
  /\ typingUsers = <<UserB, UserA>>

\* the last event handled is user_typing{username = u, is_typing = false}
TypingStopHandled(u) ==
  /\ handled.type = "user_typing"
  /\ handled.data.username = u
  /\ ~handled.data.is_typing

\* C11: after user_typing{u, false} is handled u is not in the typing list,
\* the other entries are the ones listed before, in the same order, and when
\* u was not listed before (a repeated stop, or a stop for a user who never
\* started) the list is the one it was
C11_TypingStopIdempotent ==
  \A u \in Peers :
    (Mounted /\ TypingStopHandled(u)) =>
      /\ ~Has(typingUsers, u)
      /\ typingUsers = SelectSeq(typingBefore, LAMBDA v : v # u)
      /\ ~Has(typingBefore, u) => typingUsers = typingBefore

\* a stop for UserA handled while only UserB is listed
C11_Witness ==
  /\ Mounted
  /\ TypingStopHandled(UserA)
  /\ typingBefore = <<UserB>>
  /\ typingUsers = <<UserB>>
JoinsIn(es) == {i \in DOMAIN es : es[i].type = "join_room"}

\* C12 as stated: a step from the room list into a room R emits exactly one
\* join_room, carrying the username and R, and no other step emits join_room
\* (the socket object is the same in every state).
C12_JoinOnlyOnEntry ==
  [][ IF appState = "rooms" /\ appState' = "chat" /\ currentRoom' # Null
      THEN emitted' = <<JoinRoomEv(username, currentRoom')>>
      ELSE JoinsIn(emitted') = {} ]_vars
\* C13 as stated: selecting an absent room causes no transition, so the
\* session is never in phase 'chat' without an active room.
C13_AbsentRoomNoTransition == appState = "chat" => currentRoom # Null
\* C14: in a room R the Leave button always works, connected or not; the
\* step back to the room list emits exactly leave_room{R} (nothing when there
\* is no socket), clears the active room, and unmounts the ChatRoom, so that
\* its stream, snapshot and typing list are out of reach of every listener
C14_LeaveAlwaysLeaves ==
  /\ [](Mounted => ENABLED HandleLeaveRoom)
  /\ [][ (Mounted /\ appState' = "rooms") =>
           /\ emitted' = IF socket # Null THEN <<LeaveRoomEv(currentRoom)>> ELSE <<>>
           /\ currentRoom' = Null
           /\ ~Mounted'
           /\ ~listening' ]_vars

\* R1 has been left while the transport was down
C14_Witness ==
  /\ ~connected
  /\ emitted = <<LeaveRoomEv("R1")>>
  /\ appState = "rooms"
  /\ currentRoom = Null
  /\ ~listening
\* only whitespace, or nothing at all
Blank(s) == \A i \in DOMAIN s : IsSpace(s[i])

\* the variables of the program, without the history variables
programVars == <<appVars, createPending, sockVars, roomVars, listening, timers, inbound>>

\* C15: a username, a message or a room name that is blank is refused: the
\* step of the submit handler changes nothing and emits nothing, no create
\* request is issued, a blank message is never sent, and the identity that
\* lets the session past the username prompt is never blank
C15_InvalidInputIsNoOp ==
  [][ /\ \A name \in NameInputs :
           (Blank(name) /\ UsernameSubmit(name)) =>
              (emitted' = <<>> /\ UNCHANGED programVars)
      /\ (Blank(newMessage) /\ HandleSendMessage) =>
              (emitted' = <<>> /\ UNCHANGED programVars)
      /\ \A name \in RoomNameInputs :
           (Blank(name) /\ CreateRoomSubmit(name)) =>
              (emitted' = <<>> /\ UNCHANGED programVars)
      /\ \A i \in DOMAIN emitted' :
           emitted'[i].type = "send_message" => ~Blank(emitted'[i].message)
      /\ appState' # "username" => ~Blank(username') ]_vars

\* a message of one space has just been submitted in a room
C15_Witness ==
  /\ Mounted
  /\ rejected
  /\ newMessage = <<" ">>
  /\ emitted = <<>>
  /\ sinceKey = 0
\* C16 as stated: an inbound new_message, user_joined or user_left handled
\* by a ChatRoom that has handled no event since it emitted join_room (so
\* room_joined is still to come) leaves the Message Stream and the
\* Membership Snapshot empty.
C16_EmptyUntilConfirmed ==
  [][ (Mounted /\ handled = NoEvent
         /\ Dispatched({"new_message", "user_joined", "user_left"})) =>
         (messages' = <<>> /\ onlineUsers' = <<>>) ]_vars
\* C17 as stated: at most one typing-stop timer is pending in the browser,
\* in every reachable state.
C17_AtMostOneTimer == Cardinality(DOMAIN timers) <= 1
\* C18: no username is listed twice in the typing list
C18_TypingSetNoDuplicates ==
  \A i, j \in DOMAIN typingUsers : typingUsers[i] = typingUsers[j] => i = j

\* typing(true) has been handled for UserB while UserB and UserA were both
\* listed, and two entries are listed still
C18_Witness ==
  /\ Mounted
  /\ TypingStartHandled(UserB)
  /\ typingBefore = <<UserB, UserA>>
  /\ Len(typingUsers) = 2
\* the mounted ChatRoom was rendered with another room while its idle timer
\* was pending
RoomChangedUnderTimer == \E i \in OwnTimers : timers[i].room # currentRoom

C20_JoinLeaveAlternate ==
  [][ \A i \in DOMAIN emitted' :
        /\ emitted'[i].type = "join_room" => joinedRoom = Null
        /\ emitted'[i].type \in {"leave_room", "send_message"} =>
              joinedRoom = emitted'[i].room_id ]_vars
====
